---------------------------- MODULE Spec2Model ----------------------------
(***************************************************************************)
(* Channel assignment for fixed transmitters: the free-space path loss     *)
(* model, the normalised signal-interference ratio (SIR) and the           *)
(* constraint problem solved with the min-conflicts solver.                *)
(*                                                                         *)
(* Numbers.  The program computes in floating point.  The model computes   *)
(* exactly, on a grid of inputs where every intermediate value is a        *)
(* rational: powers in dBm are multiples of 10, lengths are measured in    *)
(* units of 75/(pi*RefFreq) metres (so that wavelength/(4*pi) at frequency *)
(* f MHz is RefFreq/f length units), positions have integer coordinates    *)
(* at integer distances, and the path loss exponent is even.  A value in   *)
(* dB that the program obtains as 10*log10(x) is carried as the pair       *)
(* (db, lin) standing for db + 10*log10(lin).                              *)
(***************************************************************************)
EXTENDS Integers, Sequences, FiniteSets, TLC

VARIABLES
    transmitters,   \* the caller's list of Transmitter objects (fields)
    chs,            \* the shared Channels object of the transmitters
    path_loss,      \* the shared FreeSpacePathLossModel (pl_exp)
    pc,             \* where create_and_solve_constraint_problem stands
    call,           \* the arguments of the current (or last) call
    assignments,    \* MinConflictsSolver: variable -> channel
    steps,          \* MinConflictsSolver: iterations of the step loop begun
    lst,            \* MinConflictsSolver: variables still to visit in a pass
    conflicted,     \* MinConflictsSolver: the pass changed some variable
    outcome,        \* how the call ended: "list", "None" or the error raised
    at_call,        \* the channel fields when the current call began
    constructed,    \* the transmitters as constructed
    prev,           \* arguments and outcome of the previous finished call
    num             \* the numeric experiment (path loss and normalisation)

vars == <<transmitters, chs, path_loss, pc, call, assignments, steps, lst,
          conflicted, outcome, at_call, constructed, prev, num>>

solver_vars == <<transmitters, chs, path_loss, pc, call, assignments, steps,
                 lst, conflicted, outcome, at_call, constructed, prev>>

-----------------------------------------------------------------------------
(* Bounds of the model *)

\* the largest number of transmitters handed to the solver
MaxTx == 2

\* the largest step budget (max_steps) a call is given
MaxSteps == 2

\* the largest number of decades between transmit and target power
MaxDecades == 2

-----------------------------------------------------------------------------
(* Exact arithmetic *)

Abs(x) == IF x < 0 THEN -x ELSE x

RECURSIVE GCD(_, _)
GCD(a, b) == IF b = 0 THEN a ELSE GCD(b, a % b)

RECURSIVE Pow(_, _)
Pow(b, e) == IF e = 0 THEN 1 ELSE b * Pow(b, e - 1)

\* the rational n/d in lowest terms, d > 0
Rat(n, d) ==
    LET g == GCD(Abs(n), Abs(d))
        s == IF d < 0 THEN -1 ELSE 1
    IN  [n |-> s * (n \div g), d |-> s * (d \div g)]

RatOf(i) == [n |-> i, d |-> 1]

Zero == RatOf(0)

One == RatOf(1)

RatAdd(a, b) == Rat(a.n * b.d + b.n * a.d, a.d * b.d)

RatSub(a, b) == Rat(a.n * b.d - b.n * a.d, a.d * b.d)

\* cancels across the factors before multiplying
RatMul(a, b) ==
    LET g1 == GCD(Abs(a.n), b.d)
        g2 == GCD(Abs(b.n), a.d)
    IN  IF a.n = 0 \/ b.n = 0 THEN Zero
        ELSE [n |-> (a.n \div g1) * (b.n \div g2),
              d |-> (a.d \div g2) * (b.d \div g1)]

RatInv(a) == Rat(a.d, a.n)

RatDiv(a, b) == RatMul(a, RatInv(b))

\* -1, 0 or 1 as a < b, a = b, a > b; compares integer parts, then the
\* reciprocals of the fractional parts, so no product is formed
RECURSIVE RatCmp(_, _)
RatCmp(a, b) ==
    LET qa == a.n \div a.d
        qb == b.n \div b.d
        ra == a.n % a.d
        rb == b.n % b.d
    IN  IF qa /= qb THEN (IF qa < qb THEN -1 ELSE 1)
        ELSE IF ra = 0 /\ rb = 0 THEN 0
        ELSE IF ra = 0 THEN -1
        ELSE IF rb = 0 THEN 1
        ELSE RatCmp([n |-> b.d, d |-> rb], [n |-> a.d, d |-> ra])

RatLt(a, b) == RatCmp(a, b) < 0

RatLe(a, b) == RatCmp(a, b) <= 0

RECURSIVE RatPow(_, _)
RatPow(a, e) == IF e = 0 THEN One ELSE RatMul(a, RatPow(a, e - 1))

\* 10 ** k for an integer k
Pow10Rat(k) == IF k >= 0 THEN RatOf(Pow(10, k)) ELSE Rat(1, Pow(10, -k))

\* a percentage as used for the SIR thresholds: 3 stands for 0.03
Percent(p) == Rat(p, 100)

\* the result of an operation that may raise
Ok(v) == [err |-> "", val |-> v]

Err(e) == [err |-> e, val |-> Zero]

\* a value in dB: db + 10*log10(lin)
Db(x) == [db |-> x, lin |-> One]

\* 10 ** (a / 10) / 10 ** (b / 10) for two values in dB
LinearRatio(a, b) ==
    RatMul(Pow10Rat((a.db - b.db) \div 10), RatDiv(a.lin, b.lin))

\* a <= b for two values in dB
DbLe(a, b) == RatLe(LinearRatio(a, b), One)

-----------------------------------------------------------------------------
(* path_loss.py: Position *)

Position(x, y) == [x |-> x, y |-> y]

\* a position with integer coordinates
Pos(x, y) == Position(RatOf(x), RatOf(y))

\* Position((rx_pos.x - tx_pos.x), (rx_pos.y - tx_pos.y))
PathBetween(tx_pos, rx_pos) ==
    Position(RatSub(rx_pos.x, tx_pos.x), RatSub(rx_pos.y, tx_pos.y))

\* x ** 2 + y ** 2, the square of Position.mag()
Mag2(p) == RatAdd(RatMul(p.x, p.x), RatMul(p.y, p.y))

\* the square root of a perfect square
ISqrt(n) == CHOOSE r \in 0..n : r * r = n

RatSqrt(m) == Rat(ISqrt(m.n), ISqrt(m.d))

\* Position.mag(); the inputs keep x ** 2 + y ** 2 a perfect square
mag(p) == RatSqrt(Mag2(p))

-----------------------------------------------------------------------------
(* path_loss.py: FreeSpacePathLossModel *)

\* the frequency (MHz) whose wavelength / (4 * pi) is the unit of length
RefFreq == 2402 + 20 \div 2

\* wavelength / (4 * math.pi), wavelength = (3 * 10 ** 8) / (frequency * 10 ** 6)
WavelengthOver4Pi(frequency) == Rat(RefFreq, frequency)

FreeSpacePathLossModel(pl_exp) == [pl_exp |-> pl_exp]

\* (wavelength / (4 * math.pi * distance)) ** self.pl_exp, from the square
\* of the distance
PathGain(self, w, distance2) ==
    RatPow(RatDiv(RatMul(w, w), distance2), self.pl_exp \div 2)

\* a variant that answers the transmit power at a zero distance
ReceivedPowerOrTxPower(self, tx_power, distance2, frequency) ==
    IF distance2 = Zero THEN Ok(Db(tx_power))
    ELSE Ok([db  |-> tx_power,
             lin |-> PathGain(self, WavelengthOver4Pi(frequency), distance2)])

\* 10 * log10(rx_power_linear) at the squared distance distance2; a zero
\* distance divides by zero
ReceivedPowerAtDistance(self, tx_power, distance2, frequency) ==
    IF distance2 = Zero THEN Err("ZeroDivisionError")
    ELSE Ok([db  |-> tx_power,
             lin |-> PathGain(self, WavelengthOver4Pi(frequency), distance2)])

received_power_at_position(self, tx_power, tx_pos, rx_pos, frequency) ==
    ReceivedPowerAtDistance(self, tx_power, Mag2(PathBetween(tx_pos, rx_pos)),
                            frequency)

\* distance = wavelength / (4 * math.pi *
\*                ((rx_power_linear / tx_power_linear) ** (1 / self.pl_exp)))
SolvedDistance(self, tx_power, rx_power, frequency) ==
    RatDiv(WavelengthOver4Pi(frequency),
           Pow10Rat(((rx_power - tx_power) \div 10) \div self.pl_exp))

\* Position(path.x * scale_factor, path.y * scale_factor)
ScaledPath(path, scale_factor) ==
    Position(RatMul(path.x, scale_factor), RatMul(path.y, scale_factor))

\* scale_factor = distance / path_mag, and the scaled path
PathAtDistance(path, path_mag, distance) ==
    IF path_mag = Zero THEN Err("ZeroDivisionError")
    ELSE Ok(ScaledPath(path, RatDiv(distance, path_mag)))

\* the point at the distance where the received power is rx_power, in the
\* direction of rx_pos: the scaled path is returned as it is
PositionAlong(path, distance) == PathAtDistance(path, mag(path), distance)

position_from_received_power(self, tx_power, rx_power, tx_pos, rx_pos, frequency) ==
    PositionAlong(PathBetween(tx_pos, rx_pos),
                  SolvedDistance(self, tx_power, rx_power, frequency))

-----------------------------------------------------------------------------
(* transmitter.py: Channels *)

Channels(base_freq, num_channels, channel_width, base_freq_distance) ==
    [base_freq |-> base_freq, num_channels |-> num_channels,
     channel_width |-> channel_width,
     channels |-> [i \in 1..num_channels |->
                      base_freq + base_freq_distance * (i - 1)]]

get_channel_base(self, index) == self.channels[index]

get_channel_center(self, index) ==
    self.channels[index] + (self.channel_width \div 2)

Min(a, b) == IF a <= b THEN a ELSE b

Max(a, b) == IF a >= b THEN a ELSE b

\* a variant without the case of overlap = 0: max(0, overlap)
OverlapValueClamped(overlap) == IF overlap <= 0 THEN 0 ELSE overlap

\* the value returned for overlap = first_channel + width - second_channel
OverlapValue(overlap) ==
    IF overlap = 0 THEN 1
    ELSE IF overlap < 0 THEN 0
    ELSE overlap

get_channel_overlap(self, channel_1, channel_2) ==
    OverlapValue(Min(get_channel_base(self, channel_1),
                     get_channel_base(self, channel_2))
                 + self.channel_width
                 - Max(get_channel_base(self, channel_1),
                       get_channel_base(self, channel_2)))

-----------------------------------------------------------------------------
(* transmitter.py: Transmitter *)

Transmitter(channel, tx_power, position, sir_power_ref) ==
    [channel |-> channel, tx_power |-> tx_power, position |-> position,
     sir_power_ref |-> sir_power_ref]

spectral_mask == <<0, 28, 35, 45, 50, 60, 60, 60, 60, 60, 60>>

\* a call of path_loss.received_power_at_position with the positional
\* arguments args: the method takes four besides self
call_received_power_at_position(self, args) ==
    IF Len(args) /= 4 THEN Err("TypeError")
    ELSE received_power_at_position(self, args[1], args[2], args[3], args[4])

get_received_power(self, position, spectral_loss) ==
    call_received_power_at_position(path_loss,
        <<self.tx_power, self.position, position,
          get_channel_center(chs, self.channel), spectral_loss>>)

min_rx_power == -100

\* normal_sir_numerator / normal_sir_denominator
NormalSir(normal_sir_numerator, normal_sir_denominator) ==
    IF normal_sir_denominator = Zero THEN Err("ZeroDivisionError")
    ELSE Ok(RatDiv(normal_sir_numerator, normal_sir_denominator))

\* from numerator_linear / denominator_linear, numerator_linear /
\* max_rx_power_linear and numerator_linear / min_rx_power_linear
NormalSirOf(over_rx, over_max, over_min) ==
    NormalSir(RatSub(over_rx, over_max), RatSub(over_min, over_max))

\* the normalisation of get_signal_interference_ratio: the received power
\* of the other transmitter between min_rx_power and the maximum received
\* power, (other_transmitter.tx_power - 30) in the exponent
normalized_sir(sir_power_ref, rx_power_at_norm_pos, other_tx_power) ==
    IF DbLe(rx_power_at_norm_pos, Db(min_rx_power)) THEN Ok(One)
    ELSE NormalSirOf(LinearRatio(Db(sir_power_ref), rx_power_at_norm_pos),
                     LinearRatio(Db(sir_power_ref), Db(other_tx_power - 30)),
                     LinearRatio(Db(sir_power_ref), Db(min_rx_power)))

\* the part of get_signal_interference_ratio after rx_power_at_norm_pos
SirFromReceivedPower(self, other_transmitter, rx_power_at_norm_pos) ==
    IF rx_power_at_norm_pos.err /= "" THEN rx_power_at_norm_pos
    ELSE normalized_sir(self.sir_power_ref, rx_power_at_norm_pos.val,
                        other_transmitter.tx_power)

\* the part of get_signal_interference_ratio after normal_pos; the mask is
\* indexed before get_received_power is called
SirAtNormalPos(self, other_transmitter, normal_pos, separation) ==
    IF normal_pos.err /= "" THEN normal_pos
    ELSE IF separation >= Len(spectral_mask) THEN Err("IndexError")
    ELSE SirFromReceivedPower(self, other_transmitter,
             get_received_power(other_transmitter, normal_pos.val,
                                spectral_mask[separation + 1]))

get_signal_interference_ratio(self, other_transmitter) ==
    IF get_channel_overlap(chs, self.channel, other_transmitter.channel) = 0
    THEN Ok(One)
    ELSE SirAtNormalPos(self, other_transmitter,
             position_from_received_power(path_loss, self.tx_power,
                 self.sir_power_ref, self.position, other_transmitter.position,
                 get_channel_center(chs, self.channel)),
             Abs(other_transmitter.channel - self.channel))

-----------------------------------------------------------------------------
(* sir_constraint.py: the constraint functions.  A variable is the index   *)
(* of its transmitter in the list; its value (name, channel) is carried as *)
(* the channel.  txs is the list of transmitter objects, whose channel     *)
(* fields the constraint functions assign before they evaluate the SIR.    *)

\* the result of a constraint function: the error raised or the verdict,
\* and the transmitter objects as the evaluation leaves them
Verdict(err, ok, txs) == [err |-> err, ok |-> ok, txs |-> txs]

\* tx1.channel = tx1_channel[1]; tx2.channel = tx2_channel[1]
SetChannels(txs, tx1, ch1, tx2, ch2) ==
    [[txs EXCEPT ![tx1].channel = ch1] EXCEPT ![tx2].channel = ch2]

\* a variant that accepts a ratio equal to the minimum: return sir >= minimum_sir
SirAcceptedAtLeast(minimum_sir, sir, txs) ==
    IF sir.err /= "" THEN Verdict(sir.err, FALSE, txs)
    ELSE Verdict("", RatLe(minimum_sir, sir.val), txs)

\* return sir > minimum_sir
SirAccepted(minimum_sir, sir, txs) ==
    IF sir.err /= "" THEN Verdict(sir.err, FALSE, txs)
    ELSE Verdict("", RatLt(minimum_sir, sir.val), txs)

\* sir = tx1.get_signal_interference_ratio(tx2), the channels assigned
SirOfPair(minimum_sir, tx1, tx2, txs) ==
    SirAccepted(minimum_sir,
                get_signal_interference_ratio(txs[tx1], txs[tx2]), txs)

\* sir_constraint_creator(tx_dict, minimum_sir).sir_constraint
sir_constraint(minimum_sir, tx1, ch1, tx2, ch2, txs) ==
    SirOfPair(minimum_sir, tx1, tx2, SetChannels(txs, tx1, ch1, tx2, ch2))

\* return (sir / (len(args))) >= minimum_avg_sir
CumulativeMean(minimum_avg_sir, args, sir, txs) ==
    IF Len(args) = 0 THEN Verdict("ZeroDivisionError", FALSE, txs)
    ELSE Verdict("", RatLe(minimum_avg_sir, RatDiv(sir, RatOf(Len(args)))), txs)

\* a variant with the comparison reversed: if tmp_sir > minimum_pair_sir
AbovePairFloor(tmp_sir, minimum_pair_sir) == RatLt(minimum_pair_sir, tmp_sir)

\* if tmp_sir < minimum_pair_sir: return False
BelowPairFloor(tmp_sir, minimum_pair_sir) == RatLt(tmp_sir, minimum_pair_sir)

\* the loop of cumulative_sir_constraint_creator(...).sir_constraint over
\* args[k..], with the sum so far
RECURSIVE cumulative_loop(_, _, _, _, _, _, _, _)

\* the body of the loop after tmp_sir
CumulativeAdd(minimum_avg_sir, minimum_pair_sir, tx1, ch1, args, k, sir, tmp_sir, txs) ==
    IF tmp_sir.err /= "" THEN Verdict(tmp_sir.err, FALSE, txs)
    ELSE IF BelowPairFloor(tmp_sir.val, minimum_pair_sir)
    THEN Verdict("", FALSE, txs)
    ELSE cumulative_loop(minimum_avg_sir, minimum_pair_sir, tx1, ch1, args,
                         k + 1, RatAdd(sir, tmp_sir.val), txs)

\* the body of the loop after the channels are assigned
CumulativeStep(minimum_avg_sir, minimum_pair_sir, tx1, ch1, args, k, sir, txs) ==
    CumulativeAdd(minimum_avg_sir, minimum_pair_sir, tx1, ch1, args, k, sir,
                  get_signal_interference_ratio(txs[tx1], txs[args[k][1]]), txs)

cumulative_loop(minimum_avg_sir, minimum_pair_sir, tx1, ch1, args, k, sir, txs) ==
    IF k > Len(args) THEN CumulativeMean(minimum_avg_sir, args, sir, txs)
    ELSE CumulativeStep(minimum_avg_sir, minimum_pair_sir, tx1, ch1, args, k,
                        sir, SetChannels(txs, tx1, ch1, args[k][1], args[k][2]))

\* cumulative_sir_constraint_creator(tx_dict, minimum_avg_sir,
\* minimum_pair_sir).sir_constraint; args is a sequence of <<tx, channel>>
cumulative_sir_constraint(minimum_avg_sir, minimum_pair_sir, tx1, ch1, args, txs) ==
    cumulative_loop(minimum_avg_sir, minimum_pair_sir, tx1, ch1, args, 1,
                    Zero, txs)

-----------------------------------------------------------------------------
(* sir_constraint.py: create_and_solve_constraint_problem, the problem *)

\* the pairs [tx_names[i], tx_names[j]], i < j, in the order they are added
RECURSIVE PairConstraints(_, _, _)
PairConstraints(i, j, n) ==
    IF i >= n THEN <<>>
    ELSE IF j > n THEN PairConstraints(i + 1, i + 2, n)
    ELSE <<(<<i, j>>)>> \o PairConstraints(i, j + 1, n)

\* every_other: the other transmitters in list order
RECURSIVE every_other(_, _, _)
every_other(i, j, n) ==
    IF j > n THEN <<>>
    ELSE IF i /= j THEN <<j>> \o every_other(i, j + 1, n)
    ELSE every_other(i, j + 1, n)

\* the variables of each constraint added to the problem, in order
Constraints(n, average) ==
    IF average THEN [i \in 1..n |-> <<i>> \o every_other(i, 1, n)]
    ELSE PairConstraints(1, 2, n)

Range(f) == {f[i] : i \in DOMAIN f}

\* vconstraints[variable]: the constraints the variable takes part in
vconstraints(variable, n, average) ==
    LET Mentions(c) == variable \in Range(c)
    IN  SelectSeq(Constraints(n, average), Mentions)

\* the values (name, channel) of the other variables of a constraint
ArgsOf(variables, asg) ==
    [k \in 1..(Len(variables) - 1) |->
        <<variables[k + 1], asg[variables[k + 1]]>>]

\* the call constraint(variables, domains, assignments) of the solver:
\* the constraint function applied to the values of its variables
EvalConstraint(cfg, variables, asg, txs) ==
    IF cfg.average
    THEN cumulative_sir_constraint(Percent(cfg.min_avg_sir), Percent(cfg.min_sir),
             variables[1], asg[variables[1]], ArgsOf(variables, asg), txs)
    ELSE sir_constraint(Percent(cfg.min_sir), variables[1], asg[variables[1]],
                        variables[2], asg[variables[2]], txs)

-----------------------------------------------------------------------------
(* sir_constraint.py, lines 100-101: problem.getSolution() with the        *)
(* MinConflictsSolver(steps=max_steps) of the constraint library.          *)

\* "Check if variable is not in conflict": the constraints of the variable
\* in order, up to the first one that fails or raises
RECURSIVE CheckFrom(_, _, _, _, _)

\* after constraint k gave the verdict v
CheckNext(cfg, cs, k, asg, v) ==
    IF v.err /= "" THEN [err |-> v.err, conflict |-> FALSE, txs |-> v.txs]
    ELSE IF ~v.ok THEN [err |-> "", conflict |-> TRUE, txs |-> v.txs]
    ELSE CheckFrom(cfg, cs, k + 1, asg, v.txs)

CheckFrom(cfg, cs, k, asg, txs) ==
    IF k > Len(cs) THEN [err |-> "", conflict |-> FALSE, txs |-> txs]
    ELSE CheckNext(cfg, cs, k, asg, EvalConstraint(cfg, cs[k], asg, txs))

\* the number of constraints of the variable that fail, all evaluated
RECURSIVE CountFrom(_, _, _, _, _, _)

\* after constraint k gave the verdict v
CountNext(cfg, cs, k, asg, count, v) ==
    IF v.err /= "" THEN [err |-> v.err, count |-> count, txs |-> v.txs]
    ELSE CountFrom(cfg, cs, k + 1, asg, v.txs,
                   IF v.ok THEN count ELSE count + 1)

CountFrom(cfg, cs, k, asg, txs, count) ==
    IF k > Len(cs) THEN [err |-> "", count |-> count, txs |-> txs]
    ELSE CountNext(cfg, cs, k, asg, count,
                   EvalConstraint(cfg, cs[k], asg, txs))

\* "Find values with less conflicts": the values of the domain from value
\* on, keeping the values that violate the fewest constraints
RECURSIVE MinValuesFrom(_, _, _, _, _, _, _, _)

\* after the value gave the count c
MinValuesNext(cfg, cs, variable, value, last, asg, mincount, minvalues, c) ==
    IF c.err /= "" THEN [err |-> c.err, minvalues |-> {}, txs |-> c.txs]
    ELSE IF c.count = mincount
    THEN MinValuesFrom(cfg, cs, variable, value + 1, last, asg, c.txs,
                       [mincount |-> mincount, minvalues |-> minvalues \cup {value}])
    ELSE IF c.count < mincount
    THEN MinValuesFrom(cfg, cs, variable, value + 1, last, asg, c.txs,
                       [mincount |-> c.count, minvalues |-> {value}])
    ELSE MinValuesFrom(cfg, cs, variable, value + 1, last, asg, c.txs,
                       [mincount |-> mincount, minvalues |-> minvalues])

MinValuesFrom(cfg, cs, variable, value, last, asg, txs, best) ==
    IF value > last
    THEN [err |-> "", minvalues |-> best.minvalues, txs |-> txs]
    ELSE MinValuesNext(cfg, cs, variable, value, last, asg, best.mincount,
                       best.minvalues,
                       CountFrom(cfg, cs, 1, [asg EXCEPT ![variable] = value],
                                 txs, 0))

\* channels = range(1, channels.num_channels + 1): the domain of a variable
Domain(cfg) == 1..cfg.num_channels

ChannelsOf(txs) == [i \in DOMAIN txs |-> txs[i].channel]

NoCall == [outcome |-> "", channels |-> <<>>]

\* a constraint over one variable is evaluated when the problem is
\* prepared, on the first value of the domain: v is what it gave
PreProcess(v) ==
    /\ v.err /= ""
    /\ outcome' = v.err /\ pc' = "done"
    /\ transmitters' = v.txs

\* the call begins: the problem is set up and the solver draws the initial
\* assignment, or the call ends at once
CallSolver ==
    /\ pc = "idle"
    /\ at_call' = ChannelsOf(transmitters)
    /\ \/ \* addVariable rejects an empty domain
          /\ Len(transmitters) >= 1 /\ Domain(call) = {}
          /\ outcome' = "ValueError" /\ pc' = "done"
          /\ UNCHANGED <<assignments, transmitters>>
       \/ \* getSolution of a problem without variables
          /\ Len(transmitters) = 0
          /\ outcome' = "None" /\ pc' = "done"
          /\ UNCHANGED <<assignments, transmitters>>
       \/ /\ Len(transmitters) = 1 /\ Domain(call) /= {} /\ call.average
          /\ PreProcess(EvalConstraint(call, <<1>>, <<1>>, transmitters))
          /\ UNCHANGED assignments
       \/ \* random.choice(domains[variable]) for every variable
          /\ Len(transmitters) >= 1 /\ Domain(call) /= {}
          /\ ~(Len(transmitters) = 1 /\ call.average)
          /\ assignments' \in [1..Len(transmitters) -> Domain(call)]
          /\ outcome' = "" /\ pc' = "loop"
          /\ UNCHANGED transmitters
    /\ steps' = 0 /\ lst' = {} /\ conflicted' = FALSE
    /\ UNCHANGED <<chs, path_loss, call, constructed, prev, num>>

\* for _ in range(self._steps): another iteration; lst is shuffled, which
\* the order of the visits models
StartPass ==
    /\ pc = "loop" /\ steps < call.max_steps
    /\ steps' = steps + 1
    /\ conflicted' = FALSE
    /\ lst' = 1..Len(transmitters)
    /\ pc' = "pass"
    /\ UNCHANGED <<transmitters, chs, path_loss, call, assignments, outcome,
                   at_call, constructed, prev, num>>

\* a variant in which the end of the step loop raises instead
BudgetExhaustedRaises ==
    /\ pc = "loop" /\ steps >= call.max_steps
    /\ outcome' = "RuntimeError"
    /\ pc' = "done"
    /\ UNCHANGED <<transmitters, chs, path_loss, call, assignments, steps,
                   lst, conflicted, at_call, constructed, prev, num>>

\* the step loop ends: getSolution returns None, and so does the call
BudgetExhausted ==
    /\ pc = "loop" /\ steps >= call.max_steps
    /\ outcome' = "None"
    /\ pc' = "done"
    /\ UNCHANGED <<transmitters, chs, path_loss, call, assignments, steps,
                   lst, conflicted, at_call, constructed, prev, num>>

\* the variable is in conflict; rep is what the search for values gave
Reassign(variable, rep) ==
    \/ \* a constraint function raised in the search
       /\ rep.err /= ""
       /\ transmitters' = rep.txs
       /\ outcome' = rep.err /\ pc' = "done"
       /\ UNCHANGED <<assignments, lst, conflicted>>
    \/ \* assignments[variable] = random.choice(minvalues)
       /\ rep.err = ""
       /\ \E value \in rep.minvalues :
             assignments' = [assignments EXCEPT ![variable] = value]
       /\ transmitters' = rep.txs
       /\ conflicted' = TRUE
       /\ lst' = lst \ {variable}
       /\ UNCHANGED <<outcome, pc>>

\* chk is what the check of the variable's constraints cs gave
Visit(variable, cs, chk) ==
    \/ \* a constraint function raised
       /\ chk.err /= ""
       /\ transmitters' = chk.txs
       /\ outcome' = chk.err /\ pc' = "done"
       /\ UNCHANGED <<assignments, lst, conflicted>>
    \/ \* not in conflict
       /\ chk.err = "" /\ ~chk.conflict
       /\ transmitters' = chk.txs
       /\ lst' = lst \ {variable}
       /\ UNCHANGED <<assignments, conflicted, outcome, pc>>
    \/ /\ chk.err = "" /\ chk.conflict
       /\ Reassign(variable,
                   MinValuesFrom(call, cs, variable, 1, call.num_channels,
                                 assignments, chk.txs,
                                 [mincount |-> Len(cs), minvalues |-> {}]))

\* the constraints of the variable are checked
VisitConstraints(variable, cs) ==
    Visit(variable, cs, CheckFrom(call, cs, 1, assignments, transmitters))

\* one variable of the pass: checked, and reassigned when in conflict
VisitVariable(variable) ==
    /\ pc = "pass" /\ variable \in lst
    /\ VisitConstraints(variable,
                        vconstraints(variable, Len(transmitters), call.average))
    /\ UNCHANGED <<chs, path_loss, call, steps, at_call, constructed, prev, num>>

\* a variant that stores the channels counted from zero
ApplySolutionFromZero(txs, solution) ==
    [i \in DOMAIN txs |-> [txs[i] EXCEPT !.channel = solution[i] - 1]]

\* the solution applied to the transmitters
ApplySolution(txs, solution) ==
    [i \in DOMAIN txs |-> [txs[i] EXCEPT !.channel = solution[i]]]

\* a pass without conflict: getSolution returns the assignments, which are
\* applied to the transmitters, and the list is returned
AcceptSolution ==
    /\ pc = "pass" /\ lst = {} /\ ~conflicted
    /\ transmitters' = ApplySolution(transmitters, assignments)
    /\ outcome' = "list"
    /\ pc' = "done"
    /\ UNCHANGED <<chs, path_loss, call, assignments, steps, lst, conflicted,
                   at_call, constructed, prev, num>>

\* a pass with a conflict: back to the head of the step loop
NextIteration ==
    /\ pc = "pass" /\ lst = {} /\ conflicted
    /\ pc' = "loop"
    /\ UNCHANGED <<transmitters, chs, path_loss, call, assignments, steps,
                   lst, conflicted, outcome, at_call, constructed, prev, num>>

\* the caller has the result (or the error); it may call again
Return ==
    /\ pc = "done"
    /\ prev' = [outcome |-> outcome, channels |-> ChannelsOf(transmitters)]
    /\ pc' = "idle"
    /\ outcome' = ""
    /\ assignments' = <<>>
    /\ steps' = 0 /\ lst' = {} /\ conflicted' = FALSE
    /\ UNCHANGED <<transmitters, chs, path_loss, call, at_call, constructed, num>>

-----------------------------------------------------------------------------
(* The inputs *)

\* two channels that overlap, two channels that are apart, and a degenerate
\* plan (negative width) in which not even a channel and itself overlap
Plans ==
    {Channels(2402, 2, 20, 15), Channels(2402, 2, 20, 25),
     Channels(2402, 2, -20, 15)}

\* where create_transmitters may put the transmitters
Sites == <<Pos(0, 0), Pos(3, 4), Pos(3, 0)>>

\* SIR thresholds in percent: 0.03 and 1.0, and 2.0 outside [0, 1]
MinSirs == {3, 100, 200}

\* 0.95, the default, and 2.0 outside [0, 1]
MinAvgSirs == {95, 200}

Configs ==
    {[average |-> a, min_sir |-> s, min_avg_sir |-> g, max_steps |-> m,
      num_channels |-> c] :
        a \in BOOLEAN, s \in MinSirs, g \in MinAvgSirs, m \in 0..MaxSteps,
        c \in {0, 2}}

NoNum == [stage |-> "off"]

\* transmitters as main.py creates them (channel 1, tx_power 10), the
\* second one possibly at the position of the first
Init ==
    /\ chs \in Plans
    /\ path_loss = FreeSpacePathLossModel(2)
    /\ \E n \in 0..MaxTx, colocated \in BOOLEAN :
          transmitters =
              [i \in 1..n |->
                  Transmitter(1, 10,
                      IF colocated /\ i = 2 THEN Sites[1] ELSE Sites[i], -30)]
    /\ call \in {c \in Configs : c.average \/ c.min_avg_sir = 95}
    /\ pc = "idle"
    /\ assignments = <<>>
    /\ steps = 0 /\ lst = {} /\ conflicted = FALSE
    /\ outcome = ""
    /\ at_call = ChannelsOf(transmitters)
    /\ constructed = transmitters
    /\ prev = NoCall
    /\ num = NoNum

Next ==
    \/ CallSolver
    \/ StartPass
    \/ BudgetExhausted
    \/ \E variable \in lst : VisitVariable(variable)
    \/ AcceptSolution
    \/ NextIteration
    \/ Return

Spec == Init /\ [][Next]_vars

-----------------------------------------------------------------------------
(* The path loss model and the normalisation applied to inputs of their    *)
(* own: num holds the arguments, the stage reached and the results.        *)

NoResult == Err("unset")

\* position_from_received_power is applied to the arguments
PositionFromReceivedPower ==
    /\ num.stage = "path"
    /\ num' = [num EXCEPT
                  !.stage = "position",
                  !.position =
                      position_from_received_power(path_loss,
                          num.args.tx_power, num.args.rx_power,
                          num.args.tx_pos, num.args.rx_pos,
                          num.args.frequency)]
    /\ UNCHANGED solver_vars

\* received_power_at_position is applied to the position it returned
ReceivedPowerAtPosition ==
    /\ num.stage = "position" /\ num.position.err = ""
    /\ num' = [num EXCEPT
                  !.stage = "received",
                  !.power =
                      call_received_power_at_position(path_loss,
                          <<num.args.tx_power, num.args.tx_pos,
                            num.position.val, num.args.frequency>>)]
    /\ UNCHANGED solver_vars

\* received_power_at_position is applied to the arguments, rx_pos being
\* the position of the receiver
ReceivedPowerAtRxPos ==
    /\ num.stage = "path"
    /\ num' = [num EXCEPT
                  !.stage = "power",
                  !.power =
                      call_received_power_at_position(path_loss,
                          <<num.args.tx_power, num.args.tx_pos,
                            num.args.rx_pos, num.args.frequency>>)]
    /\ UNCHANGED solver_vars

\* self.spectral_mask[abs(other_transmitter.channel - self.channel)]
spectral_loss_between(channel, other_channel) ==
    IF Abs(other_channel - channel) >= Len(spectral_mask) THEN Err("IndexError")
    ELSE Ok(RatOf(spectral_mask[Abs(other_channel - channel) + 1]))

\* the spectral mask is looked up for a pair of channels
SpectralLoss ==
    /\ num.stage = "channels"
    /\ num' = [num EXCEPT
                  !.stage = "loss",
                  !.result = spectral_loss_between(num.args.channel,
                                                   num.args.other_channel)]
    /\ UNCHANGED solver_vars

\* get_channel_overlap is applied to two channels of the plan, and
\* get_signal_interference_ratio to two transmitters on these channels
ChannelOverlap ==
    /\ num.stage = "bands"
    /\ num' = [num EXCEPT
                  !.stage = "overlap",
                  !.result = Ok(RatOf(get_channel_overlap(chs, num.args.channel,
                                          num.args.other_channel))),
                  !.sir = get_signal_interference_ratio(
                              Transmitter(num.args.channel, 10, Sites[1], -30),
                              Transmitter(num.args.other_channel, 10,
                                          Sites[2], -30))]
    /\ UNCHANGED solver_vars

\* get_received_power of a transmitter at tx_pos on a channel of the plan
\* is applied to rx_pos and a loss of the spectral mask
GetReceivedPower ==
    /\ num.stage = "path"
    /\ \E channel \in 1..chs.num_channels,
          spectral_loss \in {spectral_mask[k] : k \in {1, 5, 6}} :
          num' = [num EXCEPT
                     !.stage = "reduced",
                     !.args = [tx_power |-> num.args.tx_power,
                               rx_power |-> num.args.rx_power,
                               tx_pos |-> num.args.tx_pos,
                               rx_pos |-> num.args.rx_pos,
                               frequency |-> num.args.frequency,
                               channel |-> channel,
                               spectral_loss |-> spectral_loss],
                     !.result =
                         get_received_power(
                             Transmitter(channel, num.args.tx_power,
                                         num.args.tx_pos, num.args.rx_power),
                             num.args.rx_pos, spectral_loss)]
    /\ UNCHANGED solver_vars

\* the normalisation of get_signal_interference_ratio is applied to a
\* received power of the other transmitter
NormalizeSir ==
    /\ num.stage = "normalise"
    /\ num' = [num EXCEPT
                  !.stage = "sir",
                  !.sir =
                      normalized_sir(num.args.sir_power_ref,
                                     Db(num.args.rx_power_at_norm_pos),
                                     num.args.other_tx_power)]
    /\ UNCHANGED solver_vars

\* transmit powers (dBm), and target powers below them by a whole number
\* of decades per unit of the path loss exponent
TxPowers == {10, 20}

TargetPowers(self, tx_power) ==
    {tx_power - 10 * self.pl_exp * k : k \in 1..MaxDecades}

\* frequencies (MHz): the centre of the first channel and its double
Frequencies == {RefFreq, 2 * RefFreq}

PathArgs(self) ==
    UNION {{[tx_power |-> p, rx_power |-> t, tx_pos |-> Sites[a],
             rx_pos |-> Sites[b], frequency |-> f] :
               t \in TargetPowers(self, p), a \in DOMAIN Sites,
               b \in DOMAIN Sites, f \in Frequencies} : p \in TxPowers}

\* reference powers, transmit powers of the other transmitter and its
\* received powers from below the floor up to its transmit power (dBm)
SirArgs ==
    {[sir_power_ref |-> r, rx_power_at_norm_pos |-> x, other_tx_power |-> o] :
        r \in {-40, -30}, o \in {-20, -10},
        x \in {10 * k : k \in -11..-1}}

\* pairs of channels of plans with up to two channels more than the
\* spectral mask has entries
ChannelArgs ==
    {[channel |-> a, other_channel |-> b] :
        a \in 1..(Len(spectral_mask) + 2), b \in 1..(Len(spectral_mask) + 2)}

\* the plans of the solver and the first five channels of the plan of
\* main.py, of which the first and the last touch
NumPlans == Plans \cup {Channels(2402, 5, 20, 5)}

NumInit ==
    /\ chs \in NumPlans
    /\ path_loss = FreeSpacePathLossModel(2)
    /\ transmitters = <<>>
    /\ call \in {c \in Configs : c.average /\ c.min_avg_sir = 95
                                 /\ c.min_sir = 3 /\ c.max_steps = 0
                                 /\ c.num_channels = 2}
    /\ pc = "idle"
    /\ assignments = <<>>
    /\ steps = 0 /\ lst = {} /\ conflicted = FALSE
    /\ outcome = ""
    /\ at_call = <<>>
    /\ constructed = <<>>
    /\ prev = NoCall
    /\ \/ \E a \in PathArgs(path_loss) :
             num = [stage |-> "path", args |-> a, position |-> NoResult,
                    power |-> NoResult, sir |-> NoResult,
                    result |-> NoResult]
       \/ \E a \in {x \in SirArgs :
                       x.rx_power_at_norm_pos <= x.other_tx_power} :
             num = [stage |-> "normalise", args |-> a, position |-> NoResult,
                    power |-> NoResult, sir |-> NoResult,
                    result |-> NoResult]
       \/ \E a \in ChannelArgs :
             num = [stage |-> "channels", args |-> a, position |-> NoResult,
                    power |-> NoResult, sir |-> NoResult,
                    result |-> NoResult]
       \/ \E a, b \in 1..chs.num_channels :
             num = [stage |-> "bands",
                    args |-> [channel |-> a, other_channel |-> b],
                    position |-> NoResult, power |-> NoResult,
                    sir |-> NoResult, result |-> NoResult]

NumNext ==
    \/ PositionFromReceivedPower
    \/ ReceivedPowerAtPosition
    \/ ReceivedPowerAtRxPos
    \/ GetReceivedPower
    \/ SpectralLoss
    \/ ChannelOverlap
    \/ NormalizeSir

SpecNum == NumInit /\ [][NumNext]_vars

-----------------------------------------------------------------------------
(* Properties of the solver *)

\* signal_interference_ratio(i, j) with the channel fields as they are
SirBetween(i, j) ==
    get_signal_interference_ratio(transmitters[i], transmitters[j])

\* the sum of the ratios of transmitter i to others[k..]
RECURSIVE SirSum(_, _, _)
SirSum(i, others, k) ==
    IF k > Len(others) THEN Zero
    ELSE RatAdd(SirBetween(i, others[k]).val, SirSum(i, others, k + 1))

\* the arithmetic mean of the ratios of transmitter i to all the others
MeanSir(i) ==
    RatDiv(SirSum(i, every_other(i, 1, Len(transmitters)), 1),
           RatOf(Len(transmitters) - 1))

\* the returned list holds every input transmitter, each with a channel
\* of the domain
CompleteAssignment ==
    /\ Len(transmitters) = Len(constructed)
    /\ \A i \in DOMAIN transmitters : transmitters[i].channel \in Domain(call)

C3_SearchIsolated ==
    chs.channel_width > 0 =>
        /\ pc \in {"loop", "pass"} => ChannelsOf(transmitters) = at_call
        /\ (pc = "done" /\ outcome = "None") =>
               ChannelsOf(transmitters) = at_call

\* two transmitters at the same position
Colocated ==
    /\ Len(transmitters) = 2
    /\ transmitters[1].position = transmitters[2].position

\* the inputs the solver is documented for: channels to choose from, a
\* positive step budget and thresholds in [0, 1]
ValidCall ==
    /\ call.num_channels >= 1
    /\ call.max_steps >= 1
    /\ call.min_sir \in 0..100
    /\ call.min_avg_sir \in 0..100

\* C4: a call ends after at most max_steps iterations with the list or the
\* no-solution value; stated for two co-located transmitters on a channel
\* plan of positive width and a valid call.
C4_EndsWithResult ==
    (Colocated /\ ValidCall /\ chs.channel_width > 0) =>
        /\ steps <= call.max_steps
        /\ pc = "done" => outcome \in {"list", "None"}

C6_SameOutcome ==
    (pc = "done" /\ prev /= NoCall /\ ValidCall /\ chs.channel_width > 0) =>
        /\ outcome = prev.outcome
        /\ outcome = "list" => ChannelsOf(transmitters) = prev.channels

\* C7: in every state each transmitter's channel is an index of the shared
\* channel plan, and its tx_power, sir_power_ref and position are those it
\* was constructed with.
C7_TransmitterInvariant ==
    /\ Len(transmitters) = Len(constructed)
    /\ \A i \in DOMAIN transmitters :
          /\ transmitters[i].channel \in 1..chs.num_channels
          /\ transmitters[i].tx_power = constructed[i].tx_power
          /\ transmitters[i].sir_power_ref = constructed[i].sir_power_ref
          /\ transmitters[i].position = constructed[i].position

\* a second call is searching after a first one returned the list with
\* channels other than those of construction
C7_Witness ==
    /\ pc = "pass"
    /\ prev.outcome = "list"
    /\ ChannelsOf(transmitters) /= ChannelsOf(constructed)
    /\ ChannelsOf(transmitters) /= at_call

\* the inputs C10 names as invalid
InvalidCall ==
    \/ Len(transmitters) = 0
    \/ call.num_channels <= 0
    \/ call.min_sir \notin 0..100
    \/ call.average /\ call.min_avg_sir \notin 0..100
    \/ call.max_steps <= 0

\* C10: a call with invalid inputs ends at setup with a ConfigurationError,
\* no search step taken and the transmitters untouched (stated for the
\* channel plans of positive width).
C10_RejectedAtSetup ==
    (InvalidCall /\ pc /= "idle" /\ chs.channel_width > 0) =>
        /\ pc = "done" /\ outcome = "ConfigurationError"
        /\ steps = 0
        /\ ChannelsOf(transmitters) = at_call

-----------------------------------------------------------------------------
(* Properties of the normalisation and of the path loss model *)

\* C8: the normalised ratio lies in [0, 1]; it is 1 when the interfering
\* power is at or below the floor of -100 dBm, and 0 when the interfering
\* power equals the transmit power of the interfering transmitter.
C8_NormalisedRange ==
    num.stage = "sir" =>
        /\ num.sir.err = ""
        /\ RatLe(Zero, num.sir.val) /\ RatLe(num.sir.val, One)
        /\ num.args.rx_power_at_norm_pos <= min_rx_power => num.sir.val = One
        /\ num.args.rx_power_at_norm_pos = num.args.other_tx_power =>
               num.sir.val = Zero

\* a and b, two powers in dB, differ by at most 1e-6 dB: their linear ratio
\* is within 1/4342945 of 1 (10 ** 1e-7 = 1 + 1/4342944.6...)
WithinTolerance(a, b) ==
    Abs(LinearRatio(a, b).n - LinearRatio(a, b).d)
        <= LinearRatio(a, b).d \div 4342945

\* C9: the power received from tx_pos at the position returned by
\* position_from_received_power(tx_power, rx_power, tx_pos, rx_pos,
\* frequency), rx_pos other than tx_pos, is rx_power within 1e-6 dB.
C9_RoundTrip ==
    (num.stage = "received" /\ num.args.tx_pos /= num.args.rx_pos) =>
        /\ num.power.err = ""
        /\ WithinTolerance(num.power.val, Db(num.args.rx_power))

-----------------------------------------------------------------------------
(* Properties of the edge cases *)

\* C11: with exactly one transmitter a valid call reports success, the
\* list, in pairwise and in cumulative mode alike, without raising (stated
\* for the channel plans of positive width).
C11_SingleTransmitterSucceeds ==
    (pc = "done" /\ Len(transmitters) = 1 /\ ValidCall
        /\ chs.channel_width > 0) =>
        outcome = "list"

C13_MaskClamped ==
    num.stage = "loss" =>
        /\ num.result.err = ""
        /\ num.result.val =
              RatOf(spectral_mask[
                  Min(Abs(num.args.other_channel - num.args.channel),
                      Len(spectral_mask) - 1) + 1])

\* the width of the plan less the distance of the bases of two channels:
\* width - spacing * |ch_a - ch_b|
BandOverlap(plan, ch_a, ch_b) ==
    plan.channel_width - Abs(plan.channels[ch_a] - plan.channels[ch_b])

\* C14 as stated: the overlap of two channels is max(0, width - spacing *
\* |ch_a - ch_b|), symmetric in the channels; it is zero exactly when the
\* bands share no interval of positive width, bands that touch included,
\* and then the ratio of two transmitters on the channels is 1.
C14_OverlapClamped ==
    num.stage = "overlap" =>
        /\ num.result.val =
              RatOf(Max(0, BandOverlap(chs, num.args.channel,
                                       num.args.other_channel)))
        /\ num.result.val =
              RatOf(get_channel_overlap(chs, num.args.other_channel,
                                        num.args.channel))
        /\ num.result.val = Zero => num.sir = Ok(One)

\* C14 as amended: the overlap of two channels is width - spacing *
\* |ch_a - ch_b| when that is positive, 1 when it is zero (the bands touch)
\* and 0 when it is negative, symmetric in the channels; it is zero exactly
\* when the bands are apart, and then the ratio of two transmitters on the
\* channels is 1.
C14_Overlap ==
    num.stage = "overlap" =>
        /\ num.result.val =
              RatOf(IF BandOverlap(chs, num.args.channel,
                                   num.args.other_channel) > 0
                    THEN BandOverlap(chs, num.args.channel,
                                     num.args.other_channel)
                    ELSE IF BandOverlap(chs, num.args.channel,
                                        num.args.other_channel) = 0
                    THEN 1 ELSE 0)
        /\ num.result.val =
              RatOf(get_channel_overlap(chs, num.args.other_channel,
                                        num.args.channel))
        /\ num.result.val = Zero <=>
              BandOverlap(chs, num.args.channel, num.args.other_channel) < 0
        /\ num.result.val = Zero => num.sir = Ok(One)

\* the overlap of two bands that touch was computed
C14_Witness ==
    /\ num.stage = "overlap"
    /\ chs.channel_width > 0
    /\ BandOverlap(chs, num.args.channel, num.args.other_channel) = 0
    /\ num.result.val = One

\* the point p lies on the ray from tx_pos through rx_pos, beyond tx_pos:
\* p - tx_pos is a positive multiple of rx_pos - tx_pos
OnRay(tx_pos, rx_pos, p) ==
    /\ RatMul(PathBetween(tx_pos, p).x, PathBetween(tx_pos, rx_pos).y)
          = RatMul(PathBetween(tx_pos, p).y, PathBetween(tx_pos, rx_pos).x)
    /\ RatLt(Zero,
             RatAdd(RatMul(PathBetween(tx_pos, p).x,
                           PathBetween(tx_pos, rx_pos).x),
                    RatMul(PathBetween(tx_pos, p).y,
                           PathBetween(tx_pos, rx_pos).y)))

\* C15: the position position_from_received_power returns lies on the ray
\* from tx_pos through rx_pos, at the solved distance from tx_pos, for
\* every tx_pos.
C15_PointOnRay ==
    (num.stage = "position" /\ num.position.err = "") =>
        /\ OnRay(num.args.tx_pos, num.args.rx_pos, num.position.val)
        /\ Mag2(PathBetween(num.args.tx_pos, num.position.val))
              = RatMul(SolvedDistance(path_loss, num.args.tx_power,
                                      num.args.rx_power, num.args.frequency),
                       SolvedDistance(path_loss, num.args.tx_power,
                                      num.args.rx_power, num.args.frequency))

\* the power in dB less a loss in dB
LessLoss(power, loss) == [db |-> power.db - loss, lin |-> power.lin]

\* C16: get_received_power of a transmitter, at a position other than its
\* own and with an extra loss, completes with a value: the received power
\* of the path loss model at the centre of the transmitter's channel, less
\* the extra loss; so the ratio of two transmitters at distinct positions
\* on overlapping channels is a value.
C16_ReceivedPowerLessLoss ==
    /\ (num.stage = "reduced" /\ num.args.tx_pos /= num.args.rx_pos) =>
          /\ num.result.err = ""
          /\ num.result.val =
                LessLoss(received_power_at_position(path_loss,
                             num.args.tx_power, num.args.tx_pos,
                             num.args.rx_pos,
                             get_channel_center(chs, num.args.channel)).val,
                         num.args.spectral_loss)
    /\ (num.stage = "overlap" /\ num.result.val /= Zero) => num.sir.err = ""

=============================================================================
